---- MODULE Spec2Model ----
(***************************************************************************)
(* A model of the Marvins code quality analyzer (src/lib/analyzer.js and   *)
(* the analyze command of src/bin/cli.js).                                 *)
(*                                                                         *)
(* Texts are sequences of one-character strings.  Real numbers are kept    *)
(* in fixed point, in thousandths ("milli"), and a comment density is the  *)
(* exact fraction [num, den].                                              *)
(***************************************************************************)
EXTENDS Integers, Sequences, FiniteSets, TLC

VARIABLES
    \* calculateCommentDensity (analyzer.js:135-157)
    cdPc,            \* "idle" | "scan" | "done"
    sourceCode,      \* the argument: a text
    lines,           \* sourceCode.split('\n')
    lineIdx,         \* position of the for-of loop in lines (1-based)
    commentLines,    \* let commentLines
    inBlockComment,  \* let inBlockComment
    cdResult,        \* the returned fraction
    \* calculateMaintainabilityIndex (analyzer.js:167-174)
    miCalls,         \* the calls made so far: arguments, locals and result
    \* calculateHalsteadVolume (analyzer.js:61-122)
    hvPc,            \* "idle" | "scan" | "done"
    tokens,          \* what the scanner yields for the text, before EndOfFileToken
    tokenIdx,        \* position of the scanner (1-based)
    totalOperators,
    totalOperands,
    uniqueOperators,
    uniqueOperands,
    hvResult,        \* the returned volume, in thousandths
    \* calculateCyclomaticComplexity (analyzer.js:45-55)
    ccPc,            \* "idle" | "visit" | "done"
    ccTree,          \* the syntax tree the argument belongs to
    ccNode,          \* the argument: a node of ccTree
    ccStack,         \* the nodes visit() has still to be called on, next first
    complexity,      \* let complexity
    \* analyzeMethods (analyzer.js:192-226) under the analyze command
    \* (cli.js:262-307)
    fs,              \* the files on disk, by path
    results,         \* const results of the call made last
    calls,           \* the analyze commands run so far, oldest first
    callLimit,       \* how many commands a run of the model makes
    \* the configure command (cli.js:197-259) with loadConfig and saveConfig
    \* (cli.js:53-83)
    configFile,      \* config.json in the working directory
    commands         \* the configure commands run so far, oldest first

cdVars == <<cdPc, sourceCode, lines, lineIdx, commentLines, inBlockComment, cdResult>>

miVars == <<miCalls>>

hvVars == <<hvPc, tokens, tokenIdx, totalOperators, totalOperands,
            uniqueOperators, uniqueOperands, hvResult>>

ccVars == <<ccPc, ccTree, ccNode, ccStack, complexity>>

amVars == <<fs, results, calls, callLimit>>

cfVars == <<configFile, commands>>

vars == <<cdVars, miVars, hvVars, ccVars, amVars, cfVars>>

(***************************************************************************)
(* Each function is checked under a specification of its own, in which     *)
(* the state of the others stays as it is before any call.                 *)
(***************************************************************************)
CDQuiet ==
    /\ cdPc = "idle"
    /\ sourceCode = <<>>
    /\ lines = <<>>
    /\ lineIdx = 0
    /\ commentLines = 0
    /\ inBlockComment = FALSE
    /\ cdResult = [num |-> 0, den |-> 1]

MIQuiet == miCalls = {}

HVQuiet ==
    /\ hvPc = "idle"
    /\ tokens = <<>>
    /\ tokenIdx = 0
    /\ totalOperators = 0
    /\ totalOperands = 0
    /\ uniqueOperators = {}
    /\ uniqueOperands = {}
    /\ hvResult = 0

CCQuiet ==
    /\ ccPc = "idle"
    /\ ccTree = <<>>
    /\ ccNode = 0
    /\ ccStack = <<>>
    /\ complexity = 0

AMQuiet ==
    /\ fs = <<>>
    /\ results = <<>>
    /\ calls = <<>>
    /\ callLimit = 0

CFQuiet ==
    /\ configFile = [exists |-> FALSE, config |-> <<>>]
    /\ commands = <<>>

(***************************************************************************)
(* Bounds                                                                  *)
(***************************************************************************)
MaxTextLen == 6
MaxMICalls == 2
MaxTokens == 4
MaxBodyNodes == 4
MaxFileNodes == 5
MaxRepeatNodes == 3
MaxCalls == 3
MaxConfigCommands == 1

(***************************************************************************)
(* Texts and the string methods the analyzer uses                          *)
(***************************************************************************)
NL == "\n"

Chars == {"/", "*", " ", "x", NL}

Texts(n) == UNION {[1..k -> Chars] : k \in 0..n}

RECURSIVE Split(_)
\* String.prototype.split('\n'): always at least one segment; a text that
\* ends with a newline has an empty last segment.
Split(s) ==
    IF \A i \in 1..Len(s) : s[i] # NL
    THEN <<s>>
    ELSE LET p == CHOOSE i \in 1..Len(s) :
                      s[i] = NL /\ \A j \in 1..(i - 1) : s[j] # NL
         IN  <<SubSeq(s, 1, p - 1)>> \o Split(SubSeq(s, p + 1, Len(s)))

IsSpace(c) == c = " " \/ c = NL

\* String.prototype.trim(): white space removed at both ends.
Trim(s) ==
    IF \A i \in 1..Len(s) : IsSpace(s[i])
    THEN <<>>
    ELSE LET a == CHOOSE i \in 1..Len(s) :
                      ~IsSpace(s[i]) /\ \A j \in 1..(i - 1) : IsSpace(s[j])
             b == CHOOSE i \in 1..Len(s) :
                      ~IsSpace(s[i]) /\ \A j \in (i + 1)..Len(s) : IsSpace(s[j])
         IN  SubSeq(s, a, b)

StartsWith(s, p) == Len(s) >= Len(p) /\ SubSeq(s, 1, Len(p)) = p

Includes(s, p) ==
    \E i \in 1..(Len(s) - Len(p) + 1) : SubSeq(s, i, i + Len(p) - 1) = p

LineComment == <<"/", "/">>
BlockOpen   == <<"/", "*">>
BlockClose  == <<"*", "/">>

(***************************************************************************)
(* Fixed-point arithmetic: a real x is the integer 1000 * x                *)
(***************************************************************************)
Milli == 1000

RECURSIVE FloorLog2(_)
FloorLog2(n) == IF n < 2 THEN 0 ELSE 1 + FloorLog2(n \div 2)

RECURSIVE Pow2(_)
Pow2(k) == IF k = 0 THEN 1 ELSE 2 * Pow2(k - 1)

\* Math.log2 of an integer n >= 1, in thousandths: exact at the powers of
\* two, linear in between (0 at n = 1, positive and increasing from 2 on).
Log2Milli(n) ==
    LET k == FloorLog2(n)
    IN  Milli * k + (Milli * (n - Pow2(k))) \div Pow2(k)

\* Math.log (natural) of the real xm / 1000, xm >= 1, in thousandths:
\* ln x = ln 2 * (log2 xm - log2 1000); 0 at x = 1.
Ln2Milli == 693

LnMilli(xm) == (Ln2Milli * (Log2Milli(xm) - Log2Milli(Milli))) \div Milli

RECURSIVE SqrtBetween(_, _, _)
\* The integer square root of n, by bisection between lo and hi.
SqrtBetween(n, lo, hi) ==
    IF lo >= hi THEN lo
    ELSE LET mid == (lo + hi + 1) \div 2
         IN  IF mid * mid <= n
             THEN SqrtBetween(n, mid, hi)
             ELSE SqrtBetween(n, lo, mid - 1)

\* Math.sqrt of the real nMicro / 10^6, in thousandths.
SqrtMilli(nMicro) == SqrtBetween(nMicro, 0, 2 * Milli)

\* Math.sin of the real x / 1000 for 0 <= x < 2, in thousandths (the
\* series x - x^3/3! + x^5/5! - x^7/7! + x^9/9!).
SinMilli(x) ==
    LET x2 == (x * x) \div Milli
        x3 == (x2 * x) \div Milli
        x5 == (x3 * x2) \div Milli
        x7 == (x5 * x2) \div Milli
        x9 == (x7 * x2) \div Milli
    IN  x - x3 \div 6 + x5 \div 120 - x7 \div 5040 + x9 \div 362880

(***************************************************************************)
(* calculateMaintainabilityIndex                                           *)
(***************************************************************************)
\* Math.sin(Math.sqrt(2.4 * commentDensity)), commentDensity = num / den.
SinSqrtDensity(cd) == SinMilli(SqrtMilli((2400000 * cd.num) \div cd.den))

\* A slip that falls back to the default multiplier when the multiplier
\* is falsy (commentDensityMultiplier || 5).
BonusFalsyDefault(multiplier, cd) ==
    ((IF multiplier = 0 THEN 5 * Milli ELSE multiplier) * SinSqrtDensity(cd))
        \div Milli

\* Line 171: const bonus.
Bonus(multiplier, cd) == (multiplier * SinSqrtDensity(cd)) \div Milli

\* Line 170: const baseMI, with the guards of lines 168-169.  The volume
\* is in thousandths, cyclomatic and loc are integers.
BaseMI(cyclomatic, halsteadVolume, loc) ==
    LET safeVolume == IF halsteadVolume > 0 THEN halsteadVolume ELSE Milli
        safeLOC    == IF loc > 0 THEN loc ELSE 1
    IN  ((171 * Milli
            - (5200 * LnMilli(safeVolume)) \div Milli
            - 230 * cyclomatic
            - (16200 * LnMilli(safeLOC * Milli)) \div Milli) * 100) \div 171

\* A slip that returns the raw index.
NoClamp(mi) == mi

\* Line 173: Math.max(0, mi).
Clamp(mi) == IF mi > 0 THEN mi ELSE 0

\* The whole function: its locals and its result, in thousandths.
CalculateMaintainabilityIndex(cyclomatic, halsteadVolume, loc, cd, multiplier) ==
    LET baseMI == BaseMI(cyclomatic, halsteadVolume, loc)
        bonus  == Bonus(multiplier, cd)
        mi     == baseMI + bonus
    IN  [baseMI |-> baseMI, bonus |-> bonus, mi |-> mi, result |-> Clamp(mi)]

\* The arguments tried: complexities, volumes and line counts (some <= 0),
\* densities in [0,1] and multipliers (negative, zero, the default 5).
MICyclomatics == {1, 900}
MIVolumes     == {-1 * Milli, 0, 8 * Milli}
MILocs        == {0, 40}
MIDensities   == {[num |-> 0, den |-> 1], [num |-> 1, den |-> 2], [num |-> 1, den |-> 1]}
MIMultipliers == {-200 * Milli, 0, 5 * Milli}

MICall(cyclomatic, halsteadVolume, loc, cd, multiplier) ==
    /\ Cardinality(miCalls) < MaxMICalls
    /\ miCalls' = miCalls \cup
          {[cyclomatic |-> cyclomatic, halsteadVolume |-> halsteadVolume,
            loc |-> loc, commentDensity |-> cd,
            commentDensityMultiplier |-> multiplier,
            out |-> CalculateMaintainabilityIndex(
                        cyclomatic, halsteadVolume, loc, cd, multiplier)]}
    /\ UNCHANGED <<cdVars, hvVars, ccVars, amVars, cfVars>>

InitMI == MIQuiet /\ CDQuiet /\ HVQuiet /\ CCQuiet /\ AMQuiet /\ CFQuiet

NextMI ==
    \E cyclomatic \in MICyclomatics, halsteadVolume \in MIVolumes,
       loc \in MILocs, cd \in MIDensities, multiplier \in MIMultipliers :
        MICall(cyclomatic, halsteadVolume, loc, cd, multiplier)

SpecMI == InitMI /\ [][NextMI]_vars

(***************************************************************************)
(* Syntax trees.  A tree is the sequence of its nodes in document order,   *)
(* each with its depth: the children of node n are the nodes of depth      *)
(* depth(n) + 1 that follow it before the next node of depth <= depth(n).  *)
(* ts.forEachChild calls back on them in that order.                       *)
(***************************************************************************)
Node(kind, op, name, depth) == [kind |-> kind, op |-> op, name |-> name, depth |-> depth]

\* The last node of the subtree rooted at n.
SubtreeEnd(tree, n) ==
    CHOOSE e \in n..Len(tree) :
        /\ \A k \in (n + 1)..e : tree[k].depth > tree[n].depth
        /\ e < Len(tree) => tree[e + 1].depth <= tree[n].depth

RECURSIVE Ascending(_)
\* The members of a set of numbers, smallest first.
Ascending(S) ==
    IF S = {} THEN <<>>
    ELSE LET m == CHOOSE x \in S : \A y \in S : x <= y
         IN  <<m>> \o Ascending(S \ {m})

\* The children ts.forEachChild(n, cb) calls cb on, in order.
ForEachChild(tree, n) ==
    Ascending({j \in (n + 1)..SubtreeEnd(tree, n) : tree[j].depth = tree[n].depth + 1})

(***************************************************************************)
(* isDecisionPoint and calculateCyclomaticComplexity                       *)
(***************************************************************************)
\* Lines 19-39.
IsDecisionPoint(node) ==
    \/ node.kind \in {"IfStatement", "ForStatement", "ForOfStatement",
                      "ForInStatement", "WhileStatement", "DoStatement",
                      "CaseClause", "CatchClause", "ConditionalExpression"}
    \/ /\ node.kind = "BinaryExpression"
       /\ node.op \in {"AmpersandAmpersandToken", "BarBarToken"}

FunctionLikeKinds ==
    {"FunctionDeclaration", "MethodDeclaration", "ArrowFunction", "FunctionExpression"}

\* A slip that stops the walk at nested function boundaries.
VisitChildrenStopAtFunctions(tree, n) ==
    IF tree[n].kind \in FunctionLikeKinds THEN <<>> ELSE ForEachChild(tree, n)

\* Line 51: ts.forEachChild(n, visit); visit returns nothing, so no child
\* is skipped.
VisitChildren(tree, n) == ForEachChild(tree, n)

RECURSIVE Visit(_, _, _)
RECURSIVE VisitAll(_, _, _)
\* Lines 47-52: visit(n), from the complexity so far to the new one.
Visit(tree, n, count) ==
    VisitAll(tree, VisitChildren(tree, n),
             IF IsDecisionPoint(tree[n]) THEN count + 1 ELSE count)

VisitAll(tree, ns, count) ==
    IF ns = <<>> THEN count
    ELSE VisitAll(tree, Tail(ns), Visit(tree, Head(ns), count))

\* The whole function, as the file analyzer calls it.
CalculateCyclomaticComplexity(tree, n) == Visit(tree, n, 1)

\* Lines 46 and 53: let complexity = 1; visit(node).
CCCall ==
    /\ ccPc = "idle"
    /\ ccPc' = "visit"
    /\ complexity' = 1
    /\ ccStack' = <<ccNode>>
    /\ UNCHANGED <<ccTree, ccNode>>
    /\ UNCHANGED <<cdVars, miVars, hvVars, amVars, cfVars>>

\* Lines 47-52: one call of visit; the calls on the children come next.
CCVisit ==
    /\ ccPc = "visit"
    /\ ccStack # <<>>
    /\ LET n == Head(ccStack) IN
         /\ complexity' = IF IsDecisionPoint(ccTree[n])
                           THEN complexity + 1 ELSE complexity
         /\ ccStack' = VisitChildren(ccTree, n) \o Tail(ccStack)
    /\ UNCHANGED <<ccPc, ccTree, ccNode>>
    /\ UNCHANGED <<cdVars, miVars, hvVars, amVars, cfVars>>

\* Line 54.
CCReturn ==
    /\ ccPc = "visit"
    /\ ccStack = <<>>
    /\ ccPc' = "done"
    /\ UNCHANGED <<ccTree, ccNode, ccStack, complexity>>
    /\ UNCHANGED <<cdVars, miVars, hvVars, amVars, cfVars>>

\* The nodes tried inside a body: decision points of each sort, a binary
\* expression that is none, blocks and nested functions.
BodyNodeSorts ==
    {<<"IfStatement", "">>, <<"CaseClause", "">>,
     <<"BinaryExpression", "BarBarToken">>,
     <<"BinaryExpression", "PlusToken">>,
     <<"Block", "">>, <<"ArrowFunction", "">>}

RECURSIVE BodyTreesOfSize(_)
\* Every tree of k nodes whose root is a Block (a function body).
BodyTreesOfSize(k) ==
    IF k = 1 THEN {<<Node("Block", "", "", 0)>>}
    ELSE UNION {{Append(t, Node(sort[1], sort[2], "", d)) :
                    sort \in BodyNodeSorts, d \in 1..(t[Len(t)].depth + 1)} :
                t \in BodyTreesOfSize(k - 1)}

BodyTrees(n) == UNION {BodyTreesOfSize(k) : k \in 1..n}

InitCC ==
    /\ ccTree \in BodyTrees(MaxBodyNodes)
    /\ ccNode = 1
    /\ ccPc = "idle"
    /\ ccStack = <<>>
    /\ complexity = 0
    /\ CDQuiet
    /\ MIQuiet
    /\ CFQuiet
    /\ HVQuiet
    /\ AMQuiet

NextCC == CCCall \/ CCVisit \/ CCReturn

SpecCC == InitCC /\ [][NextCC]_vars

(***************************************************************************)
(* calculateHalsteadVolume                                                 *)
(***************************************************************************)
\* Lines 74-98: the token kinds counted as operators.
OperatorKinds ==
    {"PlusToken", "MinusToken", "AsteriskToken", "SlashToken", "PercentToken",
     "EqualsEqualsToken", "EqualsEqualsEqualsToken", "ExclamationEqualsToken",
     "ExclamationEqualsEqualsToken", "LessThanToken", "GreaterThanToken",
     "LessThanEqualsToken", "GreaterThanEqualsToken", "AmpersandAmpersandToken",
     "BarBarToken", "QuestionToken", "ColonToken", "PlusPlusToken",
     "MinusMinusToken", "EqualsToken", "PlusEqualsToken", "MinusEqualsToken",
     "AsteriskEqualsToken", "SlashEqualsToken", "PercentEqualsToken"}

\* Lines 104-108: the token kinds counted as operands.
OperandKinds ==
    {"Identifier", "NumericLiteral", "StringLiteral", "TrueKeyword", "FalseKeyword"}

Token(kind, text) == [kind |-> kind, text |-> text]

\* Lines 71-115, one iteration of the while loop: the new counters and sets.
ScanToken(tok, st) ==
    IF tok.kind \in OperatorKinds
    THEN [st EXCEPT !.totalOperators = @ + 1,
                    !.uniqueOperators = @ \cup {tok.text}]
    ELSE IF tok.kind \in OperandKinds
    THEN [st EXCEPT !.totalOperands = @ + 1,
                    !.uniqueOperands = @ \cup {tok.text}]
    ELSE st

\* A slip that takes the logarithm of the length, not of the vocabulary.
VolumeOfLength(vocabulary, length) ==
    IF vocabulary > 0 THEN length * Log2Milli(length) ELSE 0

\* Line 120: const volume, in thousandths.
Volume(vocabulary, length) ==
    IF vocabulary > 0 THEN length * Log2Milli(vocabulary) ELSE 0

RECURSIVE ScanTokensFrom(_, _, _)
ScanTokensFrom(toks, i, st) ==
    IF i > Len(toks) THEN st
    ELSE ScanTokensFrom(toks, i + 1, ScanToken(toks[i], st))

NoTokensSeen ==
    [totalOperators |-> 0, totalOperands |-> 0,
     uniqueOperators |-> {}, uniqueOperands |-> {}]

\* The whole function on the token stream of its text, as the file
\* analyzer calls it.
CalculateHalsteadVolume(toks) ==
    LET st == ScanTokensFrom(toks, 1, NoTokensSeen)
    IN  Volume(Cardinality(st.uniqueOperators) + Cardinality(st.uniqueOperands),
               st.totalOperators + st.totalOperands)

\* The tokens tried: two operators, two identifiers, a literal, and two
\* tokens that are neither operator nor operand.
SampleTokens ==
    {Token("PlusToken", "+"), Token("EqualsToken", "="),
     Token("Identifier", "a"), Token("Identifier", "b"),
     Token("NumericLiteral", "1"),
     Token("OpenBraceToken", "{"), Token("ReturnKeyword", "return")}

TokenStreams(n) == UNION {[1..k -> SampleTokens] : k \in 0..n}

\* Lines 62-68.
HVCall ==
    /\ hvPc = "idle"
    /\ hvPc' = "scan"
    /\ tokenIdx' = 1
    /\ totalOperators' = 0
    /\ totalOperands' = 0
    /\ uniqueOperators' = {}
    /\ uniqueOperands' = {}
    /\ UNCHANGED <<tokens, hvResult>>
    /\ UNCHANGED <<cdVars, miVars, ccVars, amVars, cfVars>>

\* Lines 70-117: one iteration of the loop.
HVScanToken ==
    /\ hvPc = "scan"
    /\ tokenIdx <= Len(tokens)
    /\ LET st == ScanToken(tokens[tokenIdx],
                           [totalOperators |-> totalOperators,
                            totalOperands |-> totalOperands,
                            uniqueOperators |-> uniqueOperators,
                            uniqueOperands |-> uniqueOperands])
       IN  /\ totalOperators' = st.totalOperators
           /\ totalOperands' = st.totalOperands
           /\ uniqueOperators' = st.uniqueOperators
           /\ uniqueOperands' = st.uniqueOperands
    /\ tokenIdx' = tokenIdx + 1
    /\ UNCHANGED <<hvPc, tokens, hvResult>>
    /\ UNCHANGED <<cdVars, miVars, ccVars, amVars, cfVars>>

\* Lines 118-121.
HVReturn ==
    /\ hvPc = "scan"
    /\ tokenIdx > Len(tokens)
    /\ hvPc' = "done"
    /\ hvResult' = Volume(Cardinality(uniqueOperators) + Cardinality(uniqueOperands),
                          totalOperators + totalOperands)
    /\ UNCHANGED <<tokens, tokenIdx, totalOperators, totalOperands,
                   uniqueOperators, uniqueOperands>>
    /\ UNCHANGED <<cdVars, miVars, ccVars, amVars, cfVars>>

InitHV ==
    /\ tokens \in TokenStreams(MaxTokens)
    /\ hvPc = "idle"
    /\ tokenIdx = 0
    /\ totalOperators = 0
    /\ totalOperands = 0
    /\ uniqueOperators = {}
    /\ uniqueOperands = {}
    /\ hvResult = 0
    /\ CDQuiet
    /\ MIQuiet
    /\ CFQuiet
    /\ CCQuiet
    /\ AMQuiet

NextHV == HVCall \/ HVScanToken \/ HVReturn

SpecHV == InitHV /\ [][NextHV]_vars

(***************************************************************************)
(* calculateCommentDensity                                                 *)
(***************************************************************************)
\* A slip that never clears the flag once a block comment is open.
ScanLineNeverCloses(line, st) ==
    LET trimmed == Trim(line) IN
    IF st.inBlockComment
    THEN [commentLines   |-> st.commentLines + 1,
          inBlockComment |-> TRUE]
    ELSE IF StartsWith(trimmed, LineComment)
    THEN [commentLines   |-> st.commentLines + 1,
          inBlockComment |-> FALSE]
    ELSE IF StartsWith(trimmed, BlockOpen)
    THEN [commentLines   |-> st.commentLines + 1,
          inBlockComment |-> ~Includes(trimmed, BlockClose)]
    ELSE st

\* A slip that tests the three cases with independent ifs instead of an
\* if / else-if chain, so a line inside a block comment can count twice.
ScanLineNoElse(line, st) ==
    LET trimmed == Trim(line)
        inBlock == IF st.inBlockComment THEN 1 ELSE 0
        slashes == IF StartsWith(trimmed, LineComment) THEN 1 ELSE 0
        opens   == IF StartsWith(trimmed, BlockOpen) THEN 1 ELSE 0
    IN  [commentLines   |-> st.commentLines + inBlock + slashes + opens,
         inBlockComment |->
             IF Includes(trimmed, BlockClose) THEN FALSE
             ELSE st.inBlockComment \/ opens = 1]

\* Lines 141-154, one iteration of the for-of loop: the new values of
\* commentLines and inBlockComment.
ScanLine(line, st) ==
    LET trimmed == Trim(line) IN
    IF st.inBlockComment
    THEN [commentLines   |-> st.commentLines + 1,
          inBlockComment |-> ~Includes(trimmed, BlockClose)]
    ELSE IF StartsWith(trimmed, LineComment)
    THEN [commentLines   |-> st.commentLines + 1,
          inBlockComment |-> FALSE]
    ELSE IF StartsWith(trimmed, BlockOpen)
    THEN [commentLines   |-> st.commentLines + 1,
          inBlockComment |-> ~Includes(trimmed, BlockClose)]
    ELSE st

\* return lines.length > 0 ? commentLines / lines.length : 0
Density(count, total) ==
    IF total > 0 THEN [num |-> count, den |-> total] ELSE [num |-> 0, den |-> 1]

RECURSIVE ScanFrom(_, _, _)
ScanFrom(ls, i, st) ==
    IF i > Len(ls) THEN st ELSE ScanFrom(ls, i + 1, ScanLine(ls[i], st))

\* The whole function, as the file analyzer calls it.
CalculateCommentDensity(text) ==
    LET ls == Split(text)
        st == ScanFrom(ls, 1, [commentLines |-> 0, inBlockComment |-> FALSE])
    IN  Density(st.commentLines, Len(ls))

\* Lines 136-138: the split and the two let declarations.
CDCall ==
    /\ cdPc = "idle"
    /\ cdPc' = "scan"
    /\ lines' = Split(sourceCode)
    /\ lineIdx' = 1
    /\ commentLines' = 0
    /\ inBlockComment' = FALSE
    /\ UNCHANGED <<sourceCode, cdResult>>
    /\ UNCHANGED <<miVars, hvVars, ccVars, amVars, cfVars>>

\* Lines 140-155: one iteration of the loop.
CDScanLine ==
    /\ cdPc = "scan"
    /\ lineIdx <= Len(lines)
    /\ LET st == ScanLine(lines[lineIdx],
                          [commentLines |-> commentLines,
                           inBlockComment |-> inBlockComment])
       IN  /\ commentLines' = st.commentLines
           /\ inBlockComment' = st.inBlockComment
    /\ lineIdx' = lineIdx + 1
    /\ UNCHANGED <<cdPc, sourceCode, lines, cdResult>>
    /\ UNCHANGED <<miVars, hvVars, ccVars, amVars, cfVars>>

\* Line 156.
CDReturn ==
    /\ cdPc = "scan"
    /\ lineIdx > Len(lines)
    /\ cdPc' = "done"
    /\ cdResult' = Density(commentLines, Len(lines))
    /\ UNCHANGED <<sourceCode, lines, lineIdx, commentLines, inBlockComment>>
    /\ UNCHANGED <<miVars, hvVars, ccVars, amVars, cfVars>>

InitCD ==
    /\ sourceCode \in Texts(MaxTextLen)
    /\ cdPc = "idle"
    /\ lines = <<>>
    /\ lineIdx = 0
    /\ commentLines = 0
    /\ inBlockComment = FALSE
    /\ cdResult = [num |-> 0, den |-> 1]
    /\ MIQuiet
    /\ CFQuiet
    /\ HVQuiet
    /\ CCQuiet
    /\ AMQuiet

NextCD == CDCall \/ CDScanLine \/ CDReturn

SpecCD == InitCD /\ [][NextCD]_vars

(***************************************************************************)
(* Source files: what the TypeScript parser and scanner make of them       *)
(***************************************************************************)
\* A file on disk: so many leading // lines, then the text of its syntax
\* tree; malformed when the parser reports syntax errors for it.  The
\* parser recovers from syntax errors: ts.createSourceFile returns a tree
\* for every text and lists the errors in parseDiagnostics.
SourceFile(leading, tree, malformed) ==
    [leading |-> leading, tree |-> tree, malformed |-> malformed]

\* fs.readFileSync throws for a path with no file.
NoFile == [leading |-> 0, tree |-> <<>>, malformed |-> FALSE]

TNewLine   == Token("NewLineTrivia", <<NL>>)
TSpace     == Token("WhitespaceTrivia", <<" ">>)
TComment   == Token("SingleLineCommentTrivia", <<"/", "/", "c">>)
TFunction  == Token("FunctionKeyword", <<"f", "u", "n", "c", "t", "i", "o", "n">>)
TClass     == Token("ClassKeyword", <<"c", "l", "a", "s", "s">>)
TIf        == Token("IfKeyword", <<"i", "f">>)
TElse      == Token("ElseKeyword", <<"e", "l", "s", "e">>)
TOpenParen == Token("OpenParenToken", <<"(">>)
TCloseParen == Token("CloseParenToken", <<")">>)
TOpenBrace == Token("OpenBraceToken", <<"{">>)
TCloseBrace == Token("CloseBraceToken", <<"}">>)
TSemicolon == Token("SemicolonToken", <<";">>)
TTripleEquals == Token("EqualsEqualsEqualsToken", <<"=", "=", "=">>)
TIdent(name) == Token("Identifier", <<name>>)
TNumber(digit) == Token("NumericLiteral", <<digit>>)

\* node.body: the Block child of a declaration, 0 for undefined.
Body(tree, n) ==
    LET blocks == {j \in (n + 1)..SubtreeEnd(tree, n) :
                      /\ tree[j].depth = tree[n].depth + 1
                      /\ tree[j].kind = "Block"}
    IN  IF blocks = {} THEN 0 ELSE CHOOSE j \in blocks : \A k \in blocks : j <= k

RECURSIVE NodeTokens(_, _)
RECURSIVE StatementTokens(_, _)
\* The tokens the scanner yields for node.getText(sourceFile).
NodeTokens(tree, n) ==
    LET node == tree[n]
        kids == ForEachChild(tree, n)
        name == IF node.name = "" THEN <<>> ELSE <<TIdent(node.name)>>
        bodyOrSemicolon ==
            IF kids = <<>> THEN <<TSemicolon>>
            ELSE <<TSpace>> \o NodeTokens(tree, kids[1])
    IN  CASE node.kind = "SourceFile" -> StatementTokens(tree, kids)
          [] node.kind = "FunctionDeclaration" ->
                <<TFunction, TSpace>> \o name \o <<TOpenParen, TCloseParen>>
                    \o bodyOrSemicolon
          [] node.kind = "MethodDeclaration" ->
                name \o <<TOpenParen, TCloseParen>> \o bodyOrSemicolon
          [] node.kind = "ClassDeclaration" ->
                <<TClass, TSpace, TIdent("C"), TSpace, TOpenBrace, TNewLine>>
                    \o StatementTokens(tree, kids) \o <<TCloseBrace>>
          [] node.kind = "Block" ->
                <<TOpenBrace, TNewLine>> \o StatementTokens(tree, kids)
                    \o <<TCloseBrace>>
          [] node.kind = "IfStatement" ->
                <<TIf, TSpace, TOpenParen, TIdent("x"), TTripleEquals,
                  TNumber("1"), TCloseParen>>
                    \o bodyOrSemicolon
                    \o (IF Len(kids) < 2 THEN <<>>
                        ELSE <<TSpace, TElse, TSpace>> \o NodeTokens(tree, kids[2]))
          [] OTHER -> <<>>

\* Each node on a line of its own.
StatementTokens(tree, ns) ==
    IF ns = <<>> THEN <<>>
    ELSE NodeTokens(tree, Head(ns)) \o <<TNewLine>> \o StatementTokens(tree, Tail(ns))

RECURSIVE TextOf(_)
\* The text a token stream was scanned from.
TextOf(toks) == IF toks = <<>> THEN <<>> ELSE Head(toks).text \o TextOf(Tail(toks))

RECURSIVE CommentLines(_)
CommentLines(k) == IF k = 0 THEN <<>> ELSE <<TComment, TNewLine>> \o CommentLines(k - 1)

\* Line 193: readSourceFile(filePath), as the tokens of the text read.
ReadSourceFile(file) == CommentLines(file.leading) \o NodeTokens(file.tree, 1)

\* Line 194: ts.createSourceFile never throws on a syntax error.
CreateSourceFile(file) == file.tree

(***************************************************************************)
(* calculateLOC and analyzeMethods                                         *)
(***************************************************************************)
\* Lines 127-129.
CalculateLOC(text) == Len(Split(text))

\* Line 206.
MethodName(node) == IF node.name # "" THEN node.name ELSE "<anonymous>"

\* Lines 205-218: the record pushed for declaration n.  ctx holds the
\* tree, the file's comment density and the multiplier.
MethodRecord(ctx, n) ==
    LET methodTokens   == NodeTokens(ctx.tree, n)
        cyclomatic     == CalculateCyclomaticComplexity(ctx.tree, Body(ctx.tree, n))
        halsteadVolume == CalculateHalsteadVolume(methodTokens)
        loc            == CalculateLOC(TextOf(methodTokens))
    IN  [methodName |-> MethodName(ctx.tree[n]),
         cyclomatic |-> cyclomatic,
         halsteadVolume |-> halsteadVolume,
         loc |-> loc,
         maintainabilityIndex |->
             CalculateMaintainabilityIndex(
                 cyclomatic, halsteadVolume, loc,
                 ctx.commentDensity, ctx.commentDensityMultiplier).result]

\* A slip that leaves a recorded function without walking into it.
TraverseChildrenSkipRecorded(tree, n) ==
    IF tree[n].kind \in {"FunctionDeclaration", "MethodDeclaration"}
    THEN <<>> ELSE ForEachChild(tree, n)

\* Line 221: ts.forEachChild(node, traverse).
TraverseChildren(tree, n) == ForEachChild(tree, n)

RECURSIVE Traverse(_, _, _)
RECURSIVE TraverseAll(_, _, _)
\* Lines 200-222: traverse(node), from the results so far to the new ones.
Traverse(ctx, n, acc) ==
    TraverseAll(ctx, TraverseChildren(ctx.tree, n),
        IF /\ ctx.tree[n].kind \in {"FunctionDeclaration", "MethodDeclaration"}
           /\ Body(ctx.tree, n) # 0
        THEN Append(acc, MethodRecord(ctx, n))
        ELSE acc)

TraverseAll(ctx, ns, acc) ==
    IF ns = <<>> THEN acc
    ELSE TraverseAll(ctx, Tail(ns), Traverse(ctx, Head(ns), acc))

\* A slip that keeps the results array across calls (a module-level array).
ResultsOfLastCall == results

\* Line 195: const results = [].
NewResults == <<>>

\* cli.js:276-307 around analyzer.js:192-226: the analyze command on a
\* path, with the multiplier of the configuration.
Analyze(path, multiplier) ==
    /\ Len(calls) < callLimit
    /\ IF fs[path] = NoFile
       THEN \* readFileSync throws; the command prints the error and exits 1
            /\ UNCHANGED results
            /\ calls' = Append(calls,
                  [path |-> path, multiplier |-> multiplier, status |-> "threw",
                   results |-> <<>>, commentDensity |-> Density(0, 0),
                   printed |-> "Error during analysis", exitCode |-> 1])
       ELSE LET sourceCode_  == ReadSourceFile(fs[path])
                sourceFile   == CreateSourceFile(fs[path])
                density      == CalculateCommentDensity(TextOf(sourceCode_))
                ctx          == [tree |-> sourceFile,
                                 commentDensity |-> density,
                                 commentDensityMultiplier |-> multiplier]
                final        == Traverse(ctx, 1, NewResults)
            IN  /\ results' = final
                /\ calls' = Append(calls,
                      [path |-> path, multiplier |-> multiplier,
                       status |-> "returned",
                       results |-> final, commentDensity |-> density,
                       printed |-> IF Len(final) = 0
                                   THEN "No functions or methods were found"
                                   ELSE "Analysis Results",
                       exitCode |-> 0])
    /\ UNCHANGED <<fs, callLimit>>
    /\ UNCHANGED <<cdVars, miVars, hvVars, ccVars, cfVars>>

\* What may stand under a node of each kind, and how many children a node
\* of that kind may have, in the trees the parser builds.
Sort(kind, name) == [kind |-> kind, name |-> name]

ChildSorts(kind) ==
    CASE kind = "SourceFile" ->
            {Sort("FunctionDeclaration", "f"), Sort("FunctionDeclaration", ""),
             Sort("ClassDeclaration", "C"), Sort("IfStatement", "")}
      [] kind \in {"FunctionDeclaration", "MethodDeclaration"} -> {Sort("Block", "")}
      [] kind = "ClassDeclaration" -> {Sort("MethodDeclaration", "m")}
      [] kind = "Block" ->
            {Sort("FunctionDeclaration", "f"), Sort("ClassDeclaration", "C"),
             Sort("IfStatement", ""), Sort("Block", "")}
      [] kind = "IfStatement" -> {Sort("Block", ""), Sort("IfStatement", "")}
      [] OTHER -> {}

MaxChildren(kind) ==
    CASE kind \in {"FunctionDeclaration", "MethodDeclaration"} -> 1
      [] kind = "IfStatement" -> 2
      [] OTHER -> MaxFileNodes + MaxRepeatNodes

\* The node a new last node of depth d would hang under.
ParentAtDepth(t, d) ==
    CHOOSE i \in 1..Len(t) :
        /\ t[i].depth = d - 1
        /\ \A j \in (i + 1)..Len(t) : t[j].depth # d - 1

\* The trees got from t by one more node, at the end.
Extensions(t) ==
    UNION {LET p == ParentAtDepth(t, d)
               have == Cardinality({j \in (p + 1)..Len(t) : t[j].depth = d})
           IN  IF have >= MaxChildren(t[p].kind) THEN {}
               ELSE {Append(t, Node(sort.kind, "", sort.name, d)) :
                        sort \in ChildSorts(t[p].kind)} :
           d \in 1..(t[Len(t)].depth + 1)}

RECURSIVE FileTreesOfSize(_)
FileTreesOfSize(k) ==
    IF k = 1 THEN {<<Node("SourceFile", "", "", 0)>>}
    ELSE UNION {Extensions(t) : t \in FileTreesOfSize(k - 1)}

FileTrees(n) == UNION {FileTreesOfSize(k) : k \in 1..n}

SourceFiles(n) ==
    {SourceFile(leading, tree, malformed) :
        leading \in {0, 1}, tree \in FileTrees(n), malformed \in BOOLEAN}

\* The multipliers a configuration may hold: none, the default, a penalty.
Multipliers == {0, 5 * Milli}

\* One file, of any shape, analyzed once.
InitAnalyze ==
    /\ fs \in [{"a.ts"} -> SourceFiles(MaxFileNodes) \cup {NoFile}]
    /\ results = <<>>
    /\ calls = <<>>
    /\ callLimit = 1
    /\ CDQuiet
    /\ MIQuiet
    /\ CFQuiet
    /\ HVQuiet
    /\ CCQuiet

\* A second file beside the first: a function with an if in its body.
OtherFile ==
    SourceFile(0, <<Node("SourceFile", "", "", 0),
                    Node("FunctionDeclaration", "", "g", 1),
                    Node("Block", "", "", 2),
                    Node("IfStatement", "", "", 3)>>, FALSE)

\* Two files, analyzed again and again in any order.
InitRepeat ==
    /\ \E file \in {SourceFile(0, tree, FALSE) : tree \in FileTrees(MaxRepeatNodes)}
                    \cup {NoFile} :
          fs = [path \in {"a.ts", "b.ts"} |->
                   IF path = "a.ts" THEN file ELSE OtherFile]
    /\ results = <<>>
    /\ calls = <<>>
    /\ callLimit = MaxCalls
    /\ CDQuiet
    /\ MIQuiet
    /\ CFQuiet
    /\ HVQuiet
    /\ CCQuiet

NextAnalyze ==
    \E path \in DOMAIN fs, multiplier \in Multipliers : Analyze(path, multiplier)

SpecAnalyze == InitAnalyze /\ [][NextAnalyze]_vars

SpecRepeat == InitRepeat /\ [][NextAnalyze]_vars

(***************************************************************************)
(* The configure command, loadConfig and saveConfig (cli.js)               *)
(***************************************************************************)
\* JavaScript numbers as the command handles them: a finite number (in
\* thousandths), NaN or Infinity; null is what JSON has for the last two.
Num(v)      == [t |-> "number", v |-> v]
NaN         == [t |-> "NaN", v |-> 0]
PosInfinity == [t |-> "Infinity", v |-> 0]
JsonNull    == [t |-> "null", v |-> 0]

Digits == {"0", "1", "2", "3", "4", "5", "6", "7", "8", "9"}

DigitValue(c) ==
    CASE c = "0" -> 0 [] c = "1" -> 1 [] c = "2" -> 2 [] c = "3" -> 3
      [] c = "4" -> 4 [] c = "5" -> 5 [] c = "6" -> 6 [] c = "7" -> 7
      [] c = "8" -> 8 [] c = "9" -> 9

RECURSIVE DigitPrefix(_)
\* The longest prefix of s made of digits.
DigitPrefix(s) ==
    IF s # <<>> /\ Head(s) \in Digits
    THEN <<Head(s)>> \o DigitPrefix(Tail(s)) ELSE <<>>

RECURSIVE Decimal(_)
Decimal(ds) ==
    IF ds = <<>> THEN 0
    ELSE 10 * Decimal(SubSeq(ds, 1, Len(ds) - 1)) + DigitValue(ds[Len(ds)])

\* parseFloat: leading white space skipped, then the longest prefix that
\* is a decimal literal (digits, with or without a fraction) or Infinity;
\* NaN when there is none.  What follows the prefix is ignored.
ParseFloat(str) ==
    LET s        == IF Trim(str) = <<>> THEN <<>>
                    ELSE SubSeq(str, Len(str) - Len(Trim(str \o <<"|">>)) + 2, Len(str))
        whole    == DigitPrefix(s)
        rest     == SubSeq(s, Len(whole) + 1, Len(s))
        fraction == IF rest # <<>> /\ Head(rest) = "."
                    THEN DigitPrefix(Tail(rest)) ELSE <<>>
        thousandths == SubSeq(fraction \o <<"0", "0", "0">>, 1, 3)
    IN  IF StartsWith(s, <<"I", "n", "f", "i", "n", "i", "t", "y">>) THEN PosInfinity
        ELSE IF whole = <<>> /\ fraction = <<>> THEN NaN
        ELSE Num(Milli * Decimal(whole) + Decimal(thousandths))

\* JSON.stringify of a number: null for what JSON cannot write.
StringifyNumber(x) == IF x.t = "number" THEN x ELSE JsonNull

IsNumber(x) == "t" \in DOMAIN x

\* JSON.stringify(config, null, 2): the settings as the file holds them.
JsonStringify(config) ==
    [k \in DOMAIN config |->
        IF IsNumber(config[k]) THEN StringifyNumber(config[k])
        ELSE [f \in DOMAIN config[k] |-> StringifyNumber(config[k][f])]]

\* JSON.parse of what JSON.stringify wrote: numbers and nulls as written.
JsonParse(content) == content

\* cli.js:42-47.
DefaultConfig ==
    [cyclomatic |-> [medium |-> Num(6 * Milli), high |-> Num(10 * Milli)],
     maintainabilityIndex |-> [low |-> Num(40 * Milli), medium |-> Num(60 * Milli)],
     loc |-> [medium |-> Num(20 * Milli), high |-> Num(40 * Milli)],
     commentDensityMultiplier |-> Num(5 * Milli)]

ConfigFile(config) == [exists |-> TRUE, config |-> config]

\* A slip that starts every update from the default values.
LoadConfigDefaults(file) ==
    [file |-> IF file.exists THEN file ELSE ConfigFile(JsonStringify(DefaultConfig)),
     config |-> DefaultConfig]

\* cli.js:53-71: the file afterwards and the object returned.
LoadConfig(file) ==
    IF ~file.exists
    THEN [file |-> ConfigFile(JsonStringify(DefaultConfig)), config |-> DefaultConfig]
    ELSE [file |-> file, config |-> JsonParse(file.config)]

\* cli.js:76-83.
SaveConfig(config) == ConfigFile(JsonStringify(config))

\* obj[key] = value.
Put(obj, key, value) ==
    [k \in DOMAIN obj \cup {key} |-> IF k = key THEN value ELSE obj[k]]

\* cli.js:234-238.
MetricKeys ==
    [cyclomatic |-> [first |-> "medium", second |-> "high"],
     maintainabilityIndex |-> [first |-> "low", second |-> "medium"],
     loc |-> [first |-> "medium", second |-> "high"]]

\* Names every object literal inherits from Object.prototype: for these
\* metricKeys[metric] is a function, which is truthy and has no first or
\* second, so both keys come out as "undefined".
InheritedNames == {"constructor", "toString"}

\* cli.js:240: !metricKeys[metric].
IsFalsyMetric(metric) == metric \notin DOMAIN MetricKeys \cup InheritedNames

MetricKey(metric, which) ==
    IF metric \in DOMAIN MetricKeys THEN MetricKeys[metric][which] ELSE "undefined"

Outcome(file, exitCode, printed) ==
    [file |-> file, exitCode |-> exitCode, printed |-> printed]

\* cli.js:197-259: the command on the file found, to the file left, the
\* exit code and the message.  cmd.argc is args.length.
RunConfigure(file, cmd) ==
    IF cmd.argc < 3 THEN Outcome(file, 1, "Usage")
    ELSE IF cmd.option = "-d"
    THEN LET multiplier == ParseFloat(cmd.value1) IN
         IF multiplier = NaN
         THEN Outcome(file, 1, "Error: <value> must be a numeric value.")
         ELSE LET loaded == LoadConfig(file)
                  config == Put(loaded.config, "commentDensityMultiplier", multiplier)
              IN  Outcome(SaveConfig(config), 0, "Comment density multiplier updated")
    ELSE IF cmd.option = "-t"
    THEN IF cmd.argc < 5 THEN Outcome(file, 1, "Usage")
         ELSE LET value1 == ParseFloat(cmd.value1)
                  value2 == ParseFloat(cmd.value2)
              IN  IF value1 = NaN \/ value2 = NaN
                  THEN Outcome(file, 1,
                         "Error: <value1> and <value2> must be numeric values.")
                  ELSE IF IsFalsyMetric(cmd.metric)
                  THEN Outcome(file, 1, "Unknown metric")
                  ELSE LET loaded == LoadConfig(file)
                           empty  == [f \in {} |-> JsonNull]
                           first  == Put(empty, MetricKey(cmd.metric, "first"), value1)
                           both   == Put(first, MetricKey(cmd.metric, "second"), value2)
                           config == Put(loaded.config, cmd.metric, both)
                       IN  Outcome(SaveConfig(config), 0, "Configuration updated")
    ELSE Outcome(file, 1, "Usage")

\* One run of `marvins configure ...`.
Configure(cmd) ==
    /\ Len(commands) < MaxConfigCommands
    /\ LET out == RunConfigure(configFile, cmd) IN
         /\ configFile' = out.file
         /\ commands' = Append(commands,
                [cmd |-> cmd, before |-> configFile, after |-> out.file,
                 exitCode |-> out.exitCode, printed |-> out.printed])
    /\ UNCHANGED <<cdVars, miVars, hvVars, ccVars, amVars>>

\* The values typed: a number, a number followed by something else, a
\* word, and Infinity.
ArgValues ==
    {<<"6">>, <<" ", "2", ".", "5", "x">>, <<"a", "b", "c">>,
     <<"I", "n", "f", "i", "n", "i", "t", "y">>}

\* The metrics typed: the three valid ones, an unknown one, and a name
\* inherited from Object.prototype.
ArgMetrics == {"cyclomatic", "maintainabilityIndex", "loc", "halstead", "constructor"}

Command(argc, option, metric, value1, value2) ==
    [argc |-> argc, option |-> option, metric |-> metric,
     value1 |-> value1, value2 |-> value2]

ConfigureCommands ==
    {Command(2, "-d", "", <<>>, <<>>), Command(3, "-x", "", <<"6">>, <<>>)}
    \cup {Command(3, "-d", "", v, <<>>) : v \in ArgValues}
    \cup {Command(4, "-t", m, v, <<>>) : m \in {"loc"}, v \in {<<"6">>}}
    \cup {Command(5, "-t", m, v1, v2) : m \in ArgMetrics, v1 \in ArgValues, v2 \in ArgValues}

\* The configurations found on disk: the first threshold of each metric
\* and the multiplier are each one of two numbers.
StoredNumbers == {Num(3 * Milli), Num(9 * Milli)}

StoredConfigs ==
    {[cyclomatic |-> [medium |-> a, high |-> Num(12 * Milli)],
      maintainabilityIndex |-> [low |-> c, medium |-> Num(70 * Milli)],
      loc |-> [medium |-> e, high |-> Num(50 * Milli)],
      commentDensityMultiplier |-> g] :
        a \in StoredNumbers, c \in StoredNumbers, e \in StoredNumbers,
        g \in StoredNumbers}

InitConfigure ==
    /\ configFile \in {ConfigFile(c) : c \in StoredConfigs}
                        \cup {[exists |-> FALSE, config |-> <<>>]}
    /\ commands = <<>>
    /\ CDQuiet
    /\ MIQuiet
    /\ HVQuiet
    /\ CCQuiet
    /\ AMQuiet

NextConfigure == \E cmd \in ConfigureCommands : Configure(cmd)

SpecConfigure == InitConfigure /\ [][NextConfigure]_vars

(***************************************************************************)
(* Claims about calculateCommentDensity                                    *)
(***************************************************************************)
\* A text "consists entirely of // lines": it is not empty and each of its
\* lines, the last one terminated by a newline or not, starts with //.
AllLinesAreLineComments(text) ==
    /\ text # <<>>
    /\ LET body == IF text[Len(text)] = NL
                   THEN SubSeq(text, 1, Len(text) - 1) ELSE text
           ls   == Split(body)
       IN  \A i \in 1..Len(ls) : StartsWith(ls[i], LineComment)

\* C4: for every text made only of lines that start with //, a text whose
\* last line ends with a newline included, the density returned is 1.
C4_AllLineCommentsGiveOne ==
    (cdPc = "done" /\ AllLinesAreLineComments(sourceCode))
        => cdResult.num = cdResult.den

\* C5: the density is in [0,1]: during the scan the comment lines counted
\* never exceed the lines scanned, the result is a fraction between 0 and
\* 1, and the empty text gives 0.
C5_DensityInUnitInterval ==
    /\ cdPc \in {"scan", "done"} =>
           /\ 0 <= commentLines
           /\ commentLines <= lineIdx - 1
           /\ lineIdx - 1 <= Len(lines)
    /\ cdPc = "done" =>
           /\ cdResult.den > 0
           /\ 0 <= cdResult.num
           /\ cdResult.num <= cdResult.den
    /\ (cdPc = "done" /\ sourceCode = <<>>) => cdResult.num = 0

C5_Witness ==
    /\ cdPc = "done"
    /\ inBlockComment
    /\ 0 < cdResult.num
    /\ cdResult.num < cdResult.den

\* C10: the flag starts false; while it is false only a line that starts
\* (trimmed) with /* and holds no */ sets it; while it is true every line
\* is counted and the flag stays true exactly until a line holds */; while
\* it is false a line is counted exactly when it starts with // or /*.
C10_BlockCommentFlag ==
    [][ /\ (cdPc = "idle" /\ cdPc' = "scan") => ~inBlockComment'
        /\ (cdPc = "scan" /\ lineIdx' = lineIdx + 1) =>
              LET line    == lines[lineIdx]
                  t       == Trim(line)
                  counted == commentLines' = commentLines + 1
                  opens   == StartsWith(t, BlockOpen) /\ ~Includes(line, BlockClose)
              IN  /\ counted \/ commentLines' = commentLines
                  /\ inBlockComment =>
                        /\ counted
                        /\ inBlockComment' <=> ~Includes(line, BlockClose)
                  /\ ~inBlockComment =>
                        /\ inBlockComment' <=> opens
                        /\ counted <=> (StartsWith(t, LineComment)
                                          \/ StartsWith(t, BlockOpen))
      ]_vars

\* A block comment of three lines, closed on the third, all counted.
C10_Witness ==
    /\ cdPc = "done"
    /\ lines = << <<"/", "*">>, <<>>, <<"*", "/">> >>
    /\ commentLines = 3
    /\ ~inBlockComment

(***************************************************************************)
(* Claims about calculateMaintainabilityIndex                              *)
(***************************************************************************)
\* C6: for every input (any complexity, volumes and line counts <= 0
\* included, any density in [0,1], any multiplier, negative included) the
\* maintainability index returned is >= 0.
C6_IndexNeverNegative == \A c \in miCalls : c.out.result >= 0

\* A call whose raw index is negative, with a volume and a line count <= 0.
C6_Witness ==
    \E c \in miCalls :
        /\ c.out.mi < 0
        /\ c.out.result = 0
        /\ c.halsteadVolume <= 0
        /\ c.loc <= 0

\* C8: with commentDensityMultiplier 0 the bonus is exactly 0 for every
\* density, so calls that differ only in commentDensity return the same
\* index.
C8_ZeroMultiplierNoBonus ==
    /\ \A c \in miCalls : c.commentDensityMultiplier = 0 => c.out.bonus = 0
    /\ \A c, d \in miCalls :
          (/\ c.commentDensityMultiplier = 0
           /\ d.commentDensityMultiplier = 0
           /\ c.cyclomatic = d.cyclomatic
           /\ c.halsteadVolume = d.halsteadVolume
           /\ c.loc = d.loc) => c.out.result = d.out.result

\* Two calls with multiplier 0 that differ only in the density, one of
\* them with a density whose sine term is not 0, and a positive index.
C8_Witness ==
    \E c, d \in miCalls :
        /\ c.commentDensityMultiplier = 0
        /\ d.commentDensityMultiplier = 0
        /\ c.cyclomatic = d.cyclomatic
        /\ c.halsteadVolume = d.halsteadVolume
        /\ c.loc = d.loc
        /\ c.commentDensity.num = 0
        /\ d.commentDensity.num > 0
        /\ SinSqrtDensity(d.commentDensity) > 0
        /\ c.out.result > 0

(***************************************************************************)
(* Claims about calculateHalsteadVolume                                    *)
(***************************************************************************)
\* The operator and operand tokens of the text scanned.
Counted == {i \in 1..Len(tokens) : tokens[i].kind \in OperatorKinds \cup OperandKinds}

\* C3, as stated: the volume returned is 0 if and only if the text holds
\* no operator and no operand token.
C3_ZeroIffNoTokens ==
    hvPc = "done" => (hvResult = 0 <=> Counted = {})

\* C3, amended: the volume returned is 0 if and only if the operator and
\* operand tokens of the text have at most one distinct lexeme, and it is
\* positive otherwise.
C3_ZeroIffAtMostOneLexeme ==
    hvPc = "done" =>
        /\ hvResult >= 0
        /\ hvResult = 0 <=>
               Cardinality({<<tokens[i].kind \in OperatorKinds, tokens[i].text>> :
                              i \in Counted}) <= 1

\* One operand lexeme that occurs twice: counted tokens, volume 0.
C3_Witness ==
    /\ hvPc = "done"
    /\ Cardinality(Counted) >= 2
    /\ Cardinality({tokens[i].text : i \in Counted}) = 1
    /\ hvResult = 0

(***************************************************************************)
(* Claims about calculateCyclomaticComplexity                              *)
(***************************************************************************)
\* The nodes of the subtree rooted at n, n included.
SubtreeNodes(tree, n) == n..SubtreeEnd(tree, n)

\* C1: the complexity returned for a body is 1 plus the number of nodes
\* of its whole subtree, the root and the nodes of nested function bodies
\* included, that are decision points; so it is >= 1, and 1 when there is
\* none.
C1_ComplexityCountsDecisionPoints ==
    /\ ccPc \in {"visit", "done"} => complexity >= 1
    /\ ccPc = "done" =>
          complexity = 1 + Cardinality({j \in SubtreeNodes(ccTree, ccNode) :
                                           IsDecisionPoint(ccTree[j])})

\* A body with a decision point inside a nested function, itself inside a
\* decision point: complexity 3.
C1_Witness ==
    /\ ccPc = "done"
    /\ complexity = 3
    /\ \E f \in 2..Len(ccTree) :
          /\ ccTree[f].kind \in FunctionLikeKinds
          /\ IsDecisionPoint(ccTree[f - 1])
          /\ ccTree[f].depth = ccTree[f - 1].depth + 1
          /\ f < Len(ccTree)
          /\ ccTree[f + 1].depth > ccTree[f].depth
          /\ IsDecisionPoint(ccTree[f + 1])

(***************************************************************************)
(* Claims about analyzeMethods                                             *)
(***************************************************************************)
\* The parent of node j: the nearest node before it that is one level up.
Parent(tree, j) ==
    CHOOSE i \in 1..(j - 1) :
        /\ tree[i].depth = tree[j].depth - 1
        /\ \A k \in (i + 1)..(j - 1) : tree[k].depth >= tree[j].depth

\* The function and method declarations of a tree that have a body.
DeclarationsWithBody(tree) ==
    {n \in 1..Len(tree) :
        /\ tree[n].kind \in {"FunctionDeclaration", "MethodDeclaration"}
        /\ \E j \in (n + 1)..Len(tree) :
              tree[j].kind = "Block" /\ Parent(tree, j) = n}

\* C2: the records returned are, in document order, one for each function
\* or method declaration that has a body, nested ones included, and none
\* for a declaration without a body.
C2_RecordsInDocumentOrder ==
    \A i \in 1..Len(calls) :
        calls[i].status = "returned" =>
            LET tree  == fs[calls[i].path].tree
                decls == Ascending(DeclarationsWithBody(tree))
                ctx   == [tree |-> tree,
                          commentDensity |-> calls[i].commentDensity,
                          commentDensityMultiplier |-> calls[i].multiplier]
            IN  calls[i].results = [k \in 1..Len(decls) |-> MethodRecord(ctx, decls[k])]

\* A function with a body nested in the body of another: two records,
\* the enclosing function's first.
C2_Witness ==
    /\ Len(calls) = 1
    /\ calls[1].status = "returned"
    /\ LET tree == fs[calls[1].path].tree IN
         /\ Len(tree) = 5
         /\ \A n \in 1..5 : tree[n].depth = n - 1
         /\ tree[2].kind = "FunctionDeclaration"
         /\ tree[4].kind = "FunctionDeclaration"
    /\ Len(calls[1].results) = 2
    /\ calls[1].results[1].loc > calls[1].results[2].loc

\* C7: two analyses of the same file with the same multiplier give the
\* same records and the same comment density, whatever was analyzed in
\* between.
C7_RepeatedAnalysisAgrees ==
    \A i, j \in 1..Len(calls) :
        (calls[i].path = calls[j].path /\ calls[i].multiplier = calls[j].multiplier)
            => calls[i] = calls[j]

\* The same file analyzed twice with another file analyzed in between,
\* records returned each time.
C7_Witness ==
    /\ Len(calls) = 3
    /\ calls[1].path = calls[3].path
    /\ calls[1].multiplier = calls[3].multiplier
    /\ calls[2].path # calls[1].path
    /\ \A i \in 1..3 : Len(calls[i].results) > 0

\* C9: an analysis of a file the parser reports syntax errors for fails
\* with a fatal error and returns no records.
C9_ParseFailureIsFatal ==
    \A i \in 1..Len(calls) :
        fs[calls[i].path].malformed =>
            /\ calls[i].status = "threw"
            /\ calls[i].exitCode = 1
            /\ calls[i].results = <<>>

(***************************************************************************)
(* Claims about the configure command                                      *)
(***************************************************************************)
ValidMetrics == {"cyclomatic", "maintainabilityIndex", "loc"}

\* The two threshold fields of each metric.
ThresholdFields(metric) ==
    IF metric = "maintainabilityIndex" THEN {"low", "medium"} ELSE {"medium", "high"}

\* The settings other than `key` are the same in both configurations.
SameExcept(before, after, key) ==
    /\ DOMAIN after \ {key} = DOMAIN before \ {key}
    /\ \A k \in DOMAIN before \ {key} : after[k] = before[k]

\* C11: on a stored configuration, configure -t with a valid metric
\* changes only the two threshold fields of that metric, configure -d
\* changes only commentDensityMultiplier, and a rejected command leaves
\* config.json as it was.
C11_ConfigureChangesOnlyItsSetting ==
    \A i \in 1..Len(commands) :
        LET c == commands[i] IN
        c.before.exists =>
            /\ (c.exitCode = 0 /\ c.cmd.option = "-t" /\ c.cmd.metric \in ValidMetrics) =>
                  /\ c.after.exists
                  /\ SameExcept(c.before.config, c.after.config, c.cmd.metric)
                  /\ DOMAIN c.after.config[c.cmd.metric] = ThresholdFields(c.cmd.metric)
            /\ (c.exitCode = 0 /\ c.cmd.option = "-d") =>
                  /\ c.after.exists
                  /\ SameExcept(c.before.config, c.after.config,
                                "commentDensityMultiplier")
            /\ c.exitCode # 0 => c.after = c.before

\* A stored configuration that is not the default one, and a configure -t
\* that changed the thresholds of maintainabilityIndex.
C11_Witness ==
    \E i \in 1..Len(commands) :
        LET c == commands[i] IN
        /\ c.before.exists
        /\ c.exitCode = 0
        /\ c.cmd.option = "-t"
        /\ c.cmd.metric = "maintainabilityIndex"
        /\ c.after.config.maintainabilityIndex # c.before.config.maintainabilityIndex
        /\ c.before.config.cyclomatic # DefaultConfig.cyclomatic
        /\ c.before.config.commentDensityMultiplier # DefaultConfig.commentDensityMultiplier

====
